---- MODULE Spec2Model ----
(***************************************************************************)
(* Model of app_web.py: a Streamlit page asking questions about 10-K       *)
(* filings.  Every user event re-executes the whole script for the         *)
(* session that produced it; the two initializers are wrapped by           *)
(* st.cache_resource, whose cache is shared by all sessions of the         *)
(* process.  Strings are sequences of characters or tokens.                *)
(***************************************************************************)
EXTENDS Naturals, Sequences, FiniteSets, TLC

\* ------------------------------------------------------------------ bounds
MaxEdits == 5
MaxCtorCalls == 2

\* two browser sessions served by the one process
Sessions == {"s1", "s2"}

\* Contents the user may type into the key field, the question field, the
\* answers the chain may produce and the exception messages a call may raise.
KeyValues == {<<>>, <<" ">>, <<"a">>}
Questions == {<<>>, <<"q">>, <<"r">>}
Answers == {<<>>, <<" ">>, <<"x", " ">>}
Exceptions == {<<"E1">>, <<"E2">>}

Fns == {"initialize_vector_store", "initialize_qa_chain"}

\* ---------------------------------------------------------- python values
None == [id |-> 0]
Unset == <<"<unset>">>
NoAnswer == [heading |-> <<>>]
NoCall == [called |-> FALSE]

\* bool(s) of a Python str: true iff the string has at least one character
Truthy_Always(s) == TRUE
Truthy(s) == Len(s) > 0

IsSpace(c) == c = " "
WhitespaceOnly(s) == \A i \in 1..Len(s) : IsSpace(s[i])

\* whether text contains part as a contiguous run
Contains(text, part) ==
    \E i \in 1..(Len(text) + 1) :
        /\ i + Len(part) - 1 <= Len(text)
        /\ SubSeq(text, i, i + Len(part) - 1) = part

\* textwrap.fill(answer, width=80) for a text of spaces and letters shorter
\* than one line: trailing whitespace is dropped (a text of whitespace alone
\* becomes empty), leading whitespace before a word is kept, nothing is wrapped
RECURSIVE RStrip(_)
RStrip(s) ==
    IF s # <<>> /\ IsSpace(s[Len(s)]) THEN RStrip(SubSeq(s, 1, Len(s) - 1)) ELSE s
Fill(answer) == RStrip(answer)

\* ------------------------------------------------------------------- state
VARIABLES
    openai_api_key,  \* st.session_state.openai_api_key of each session
    keyWidget,       \* key field of each session: [default, val]
    questionWidget,  \* content of the question field of each session
    pc,              \* position of each session's script run
    trigger,         \* the event that started the session's latest run
    api_key,         \* local api_key of the latest run
    vector_store,    \* local vector_store of the latest run
    qa_chain,        \* local qa_chain of the latest run
    display,         \* elements the latest run has rendered
    prevAnswer,      \* answer element on the page before the latest run
    prevStored,      \* stored key before the latest run
    calls,           \* names of the functions the latest run has called
    nGetAnswer,      \* get_answer calls of the latest run
    caught,          \* exceptions caught during the latest run: [fn, e]
    sessRaised,      \* keys whose store construction raised in this session
    vsCache,         \* cache of initialize_vector_store: set of [ck, entry]
    qaCache,         \* cache of initialize_qa_chain: set of [ck, entry]
    nextId,          \* identity of the next object constructed
    ctorCalls,       \* constructor invocations per function and key
    raised,          \* [fn, key] whose constructor raised
    returned,        \* [fn, key, obj] of every handle an initializer returned
    firstQA,         \* per key, [store, ret] of the first direct initialize_qa_chain call
    lastQA,          \* [store, key, ret] of the latest direct initialize_qa_chain call
    edits            \* user edits made so far

sessVars == <<openai_api_key, keyWidget, questionWidget, pc, trigger, api_key,
              vector_store, qa_chain, display, prevAnswer, prevStored, calls,
              nGetAnswer, caught, sessRaised>>
procVars == <<vsCache, qaCache, nextId, ctorCalls, raised, returned>>
vars == <<sessVars, procVars, firstQA, lastQA, edits>>

BlankPage == [warning |-> FALSE, errors |-> {}, question |-> FALSE,
              answer |-> NoAnswer]

Init ==
    /\ openai_api_key = [s \in Sessions |-> Unset]
    /\ keyWidget = [s \in Sessions |-> [default |-> Unset, val |-> <<>>]]
    /\ questionWidget = [s \in Sessions |-> <<>>]
    /\ pc = [s \in Sessions |-> "rerun"]
    /\ trigger = [s \in Sessions |-> "load"]
    /\ api_key = [s \in Sessions |-> <<>>]
    /\ vector_store = [s \in Sessions |-> None]
    /\ qa_chain = [s \in Sessions |-> None]
    /\ display = [s \in Sessions |-> BlankPage]
    /\ prevAnswer = [s \in Sessions |-> NoAnswer]
    /\ prevStored = [s \in Sessions |-> Unset]
    /\ calls = [s \in Sessions |-> {}]
    /\ nGetAnswer = [s \in Sessions |-> 0]
    /\ caught = [s \in Sessions |-> {}]
    /\ sessRaised = [s \in Sessions |-> {}]
    /\ vsCache = {}
    /\ qaCache = {}
    /\ nextId = 1
    /\ ctorCalls = [f \in Fns |-> [k \in KeyValues |-> 0]]
    /\ raised = {}
    /\ returned = {}
    /\ firstQA = [k \in KeyValues |-> NoCall]
    /\ lastQA = NoCall
    /\ edits = 0

\* --------------------------------------------------------------- widgets
\* st.text_input(label, value=...) without a key: the widget's identity is
\* derived from its parameters, so a changed value parameter makes a new
\* widget that starts from that value; otherwise the field keeps its content
TextInput(w, value) ==
    IF w.default = value THEN w ELSE [default |-> value, val |-> value]

\* lines 25-26: the stored key is created empty on the session's first run
StoredOrDefault(stored) == IF stored = Unset THEN <<>> ELSE stored

\* lines 90-91: the stored key after the key field returned k
NewStoredKey_Always(stored, k) == k
NewStoredKey(stored, k) == IF Truthy(k) THEN k ELSE stored

\* ---------------------------------------------------- st.cache_resource
CacheHit(cache, ck) == \E r \in cache : r.ck = ck
CacheGet(cache, ck) == (CHOOSE r \in cache : r.ck = ck).entry
\* the cache keeps whatever the function returned, None included
CacheStore_DropNone(cache, ck, entry) ==
    IF entry.value = None THEN cache
    ELSE {r \in cache : r.ck # ck} \cup {[ck |-> ck, entry |-> entry]}
CacheStore(cache, ck, entry) ==
    {r \in cache : r.ck # ck} \cup {[ck |-> ck, entry |-> entry]}

\* the second look at the cache, made under the lock of the value's key
LockedHit_NoRecheck(cache, ck) == FALSE
LockedHit(cache, ck) == CacheHit(cache, ck)

\* the cache key is made of the arguments; an argument whose name starts
\* with an underscore is left out of it
CacheKeyVS_Const(k) == <<>>
CacheKeyVS(k) == k
CacheKeyQA_WithStore(store, k) == <<store.id>> \o k
CacheKeyQA(store, k) == k

\* what the wrapped constructor does: it returns an object or raises e
Outcomes == {[ok |-> TRUE, e |-> <<>>]} \cup {[ok |-> FALSE, e |-> e] : e \in Exceptions}

\* ---------------------------------------------------------- initializers
VectorStoreErrorText_NoDetail(e) == <<"Error initializing vector store: ">>
VectorStoreErrorText(e) == <<"Error initializing vector store: ">> \o e
QAChainErrorText(e) == <<"Error initializing QA chain: ">> \o e
AnswerErrorText(e) == <<"Error getting answer: ">> \o e

\* lines 30-45: the value returned and the elements shown, given what
\* Neo4jVector.from_existing_graph does; id is the new object's identity
initialize_vector_store(k, o, id) ==
    IF o.ok
    THEN [value |-> [id |-> id, embedding |-> k], messages |-> {}]
    ELSE [value |-> None, messages |-> {VectorStoreErrorText(o.e)}]

\* lines 49-60
initialize_qa_chain(store, k, o, id) ==
    IF o.ok
    THEN [value |-> [id |-> id, retriever |-> store.id, llm |-> k], messages |-> {}]
    ELSE [value |-> None, messages |-> {QAChainErrorText(o.e)}]

\* lines 63-69: the value returned and the elements shown, given what the
\* chain does: it answers with a text or raises e
NoneAnswer == [none |-> TRUE, text |-> <<>>]
AnswerOutcomes ==
    {[ok |-> TRUE, e |-> <<>>, answer |-> a] : a \in Answers}
    \cup {[ok |-> FALSE, e |-> e, answer |-> <<>>] : e \in Exceptions}
get_answer_ReturnError(o) ==
    IF o.ok
    THEN [ret |-> [none |-> FALSE, text |-> o.answer], messages |-> {}]
    ELSE [ret |-> [none |-> FALSE, text |-> o.e], messages |-> {AnswerErrorText(o.e)}]
get_answer(o) ==
    IF o.ok
    THEN [ret |-> [none |-> FALSE, text |-> o.answer], messages |-> {}]
    ELSE [ret |-> NoneAnswer, messages |-> {AnswerErrorText(o.e)}]

\* `if answer:` of line 120
AnswerTruthy(r) == ~r.none /\ Truthy(r.text)

\* ------------------------------------------------------------ script run
\* a user edits the key field of a page that is at rest
EditKey(s, k) ==
    /\ pc[s] = "idle"
    /\ edits < MaxEdits
    /\ edits' = edits + 1
    /\ k # keyWidget[s].val
    /\ keyWidget' = [keyWidget EXCEPT ![s].val = k]
    /\ trigger' = [trigger EXCEPT ![s] = "key"]
    /\ pc' = [pc EXCEPT ![s] = "rerun"]
    /\ UNCHANGED <<openai_api_key, questionWidget, api_key, vector_store,
                   qa_chain, display, prevAnswer, prevStored, calls,
                   nGetAnswer, caught, sessRaised, procVars, firstQA, lastQA>>

\* a user edits the question field, which the page must be showing
EditQuestion(s, q) ==
    /\ pc[s] = "idle"
    /\ edits < MaxEdits
    /\ edits' = edits + 1
    /\ display[s].question
    /\ q # questionWidget[s]
    /\ questionWidget' = [questionWidget EXCEPT ![s] = q]
    /\ trigger' = [trigger EXCEPT ![s] = "question"]
    /\ pc' = [pc EXCEPT ![s] = "rerun"]
    /\ UNCHANGED <<openai_api_key, keyWidget, api_key, vector_store,
                   qa_chain, display, prevAnswer, prevStored, calls,
                   nGetAnswer, caught, sessRaised, procVars, firstQA, lastQA>>

\* lines 25-26 and 72-91, and 123-128 when the key is empty
Rerun(s) ==
    /\ pc[s] = "rerun"
    /\ LET stored == StoredOrDefault(openai_api_key[s])
           w == TextInput(keyWidget[s], stored)
           k == w.val
       IN /\ keyWidget' = [keyWidget EXCEPT ![s] = w]
          /\ api_key' = [api_key EXCEPT ![s] = k]
          /\ prevStored' = [prevStored EXCEPT ![s] = stored]
          /\ openai_api_key' = [openai_api_key EXCEPT ![s] = NewStoredKey(stored, k)]
          /\ IF Truthy(k)
             THEN /\ display' = [display EXCEPT ![s] = BlankPage]
                  /\ pc' = [pc EXCEPT ![s] = "init_vs"]
                  /\ UNCHANGED questionWidget
             ELSE /\ display' = [display EXCEPT ![s] = [BlankPage EXCEPT !.warning = TRUE]]
                  /\ pc' = [pc EXCEPT ![s] = "idle"]
                  /\ questionWidget' = [questionWidget EXCEPT ![s] = <<>>]
    /\ prevAnswer' = [prevAnswer EXCEPT ![s] = display[s].answer]
    /\ vector_store' = [vector_store EXCEPT ![s] = None]
    /\ qa_chain' = [qa_chain EXCEPT ![s] = None]
    /\ calls' = [calls EXCEPT ![s] = {}]
    /\ nGetAnswer' = [nGetAnswer EXCEPT ![s] = 0]
    /\ caught' = [caught EXCEPT ![s] = {}]
    /\ UNCHANGED <<trigger, sessRaised, procVars, firstQA, lastQA, edits>>

\* lines 94-96: initialize_vector_store has returned entry's value after
\* showing entry's elements; st.stop() ends the run when it is None
VSReturn(s, entry) ==
    /\ vector_store' = [vector_store EXCEPT ![s] = entry.value]
    /\ display' = [display EXCEPT ![s].errors = @ \cup entry.messages]
    /\ IF entry.value = None
       THEN /\ pc' = [pc EXCEPT ![s] = "idle"]
            /\ questionWidget' = [questionWidget EXCEPT ![s] = <<>>]
            /\ UNCHANGED returned
       ELSE /\ pc' = [pc EXCEPT ![s] = "init_qa"]
            /\ returned' = returned \cup
                   {[fn |-> "initialize_vector_store", key |-> api_key[s], obj |-> entry.value]}
            /\ UNCHANGED questionWidget
    /\ UNCHANGED <<openai_api_key, keyWidget, trigger, api_key, qa_chain,
                   prevAnswer, prevStored, nGetAnswer, qaCache, firstQA, lastQA, edits>>

\* line 94: the call; the cache is read without a lock
VSLookup(s) ==
    /\ pc[s] = "init_vs"
    /\ calls' = [calls EXCEPT ![s] = @ \cup {"initialize_vector_store"}]
    /\ LET ck == CacheKeyVS(api_key[s])
       IN IF CacheHit(vsCache, ck)
          THEN VSReturn(s, CacheGet(vsCache, ck))
          ELSE /\ pc' = [pc EXCEPT ![s] = "vs_miss"]
               /\ UNCHANGED <<openai_api_key, keyWidget, questionWidget, trigger,
                              api_key, vector_store, qa_chain, display, prevAnswer,
                              prevStored, nGetAnswer, returned, qaCache, firstQA, lastQA, edits>>
    /\ UNCHANGED <<caught, sessRaised, vsCache, nextId, ctorCalls, raised>>

\* lines 29-45 on a miss: under the lock of the value's key the cache is read
\* again, and only on a second miss is the function run and its result kept
VSCompute(s) ==
    /\ pc[s] = "vs_miss"
    /\ UNCHANGED calls
    /\ LET k == api_key[s]
           ck == CacheKeyVS(k)
           fn == "initialize_vector_store"
       IN IF LockedHit(vsCache, ck)
          THEN /\ VSReturn(s, CacheGet(vsCache, ck))
               /\ UNCHANGED <<caught, sessRaised, vsCache, nextId, ctorCalls, raised>>
          ELSE /\ ctorCalls[fn][k] < MaxCtorCalls
               /\ \E o \in Outcomes :
                    LET entry == initialize_vector_store(k, o, nextId)
                    IN /\ vsCache' = CacheStore(vsCache, ck, entry)
                       /\ nextId' = IF o.ok THEN nextId + 1 ELSE nextId
                       /\ ctorCalls' = [ctorCalls EXCEPT ![fn][k] = @ + 1]
                       /\ raised' = IF o.ok THEN raised
                                    ELSE raised \cup {[fn |-> fn, key |-> k]}
                       /\ caught' = IF o.ok THEN caught
                                    ELSE [caught EXCEPT ![s] = @ \cup {[fn |-> fn, e |-> o.e]}]
                       /\ sessRaised' = IF o.ok THEN sessRaised
                                        ELSE [sessRaised EXCEPT ![s] = @ \cup {k}]
                       /\ VSReturn(s, entry)

\* lines 98-100: initialize_qa_chain has returned entry's value after showing
\* entry's elements; st.stop() ends the run when it is None
QAReturn(s, entry) ==
    /\ qa_chain' = [qa_chain EXCEPT ![s] = entry.value]
    /\ display' = [display EXCEPT ![s].errors = @ \cup entry.messages]
    /\ IF entry.value = None
       THEN /\ pc' = [pc EXCEPT ![s] = "idle"]
            /\ questionWidget' = [questionWidget EXCEPT ![s] = <<>>]
            /\ UNCHANGED returned
       ELSE /\ pc' = [pc EXCEPT ![s] = "question"]
            /\ returned' = returned \cup
                   {[fn |-> "initialize_qa_chain", key |-> api_key[s], obj |-> entry.value]}
            /\ UNCHANGED questionWidget
    /\ UNCHANGED <<openai_api_key, keyWidget, trigger, api_key, vector_store,
                   prevAnswer, prevStored, nGetAnswer, sessRaised, vsCache, firstQA, lastQA, edits>>

\* line 98: the call; the cache is read without a lock
QALookup(s) ==
    /\ pc[s] = "init_qa"
    /\ calls' = [calls EXCEPT ![s] = @ \cup {"initialize_qa_chain"}]
    /\ LET ck == CacheKeyQA(vector_store[s], api_key[s])
       IN IF CacheHit(qaCache, ck)
          THEN QAReturn(s, CacheGet(qaCache, ck))
          ELSE /\ pc' = [pc EXCEPT ![s] = "qa_miss"]
               /\ UNCHANGED <<openai_api_key, keyWidget, questionWidget, trigger,
                              api_key, vector_store, qa_chain, display, prevAnswer,
                              prevStored, nGetAnswer, sessRaised, returned, vsCache,
                              firstQA, lastQA, edits>>
    /\ UNCHANGED <<caught, qaCache, nextId, ctorCalls, raised>>

\* lines 48-60 on a miss, as for the vector store
QACompute(s) ==
    /\ pc[s] = "qa_miss"
    /\ UNCHANGED calls
    /\ LET k == api_key[s]
           ck == CacheKeyQA(vector_store[s], k)
           fn == "initialize_qa_chain"
       IN IF LockedHit(qaCache, ck)
          THEN /\ QAReturn(s, CacheGet(qaCache, ck))
               /\ UNCHANGED <<caught, qaCache, nextId, ctorCalls, raised>>
          ELSE /\ ctorCalls[fn][k] < MaxCtorCalls
               /\ \E o \in Outcomes :
                    LET entry == initialize_qa_chain(vector_store[s], k, o, nextId)
                    IN /\ qaCache' = CacheStore(qaCache, ck, entry)
                       /\ nextId' = IF o.ok THEN nextId + 1 ELSE nextId
                       /\ ctorCalls' = [ctorCalls EXCEPT ![fn][k] = @ + 1]
                       /\ raised' = IF o.ok THEN raised
                                    ELSE raised \cup {[fn |-> fn, key |-> k]}
                       /\ caught' = IF o.ok THEN caught
                                    ELSE [caught EXCEPT ![s] = @ \cup {[fn |-> fn, e |-> o.e]}]
                       /\ QAReturn(s, entry)

\* lines 103-117: the question field and the examples are rendered; an empty
\* question ends the run
RenderQuestion(s) ==
    /\ pc[s] = "question"
    /\ display' = [display EXCEPT ![s].question = TRUE]
    /\ pc' = [pc EXCEPT ![s] = IF Truthy(questionWidget[s]) THEN "get_answer" ELSE "idle"]
    /\ UNCHANGED <<openai_api_key, keyWidget, questionWidget, trigger, api_key,
                   vector_store, qa_chain, prevAnswer, prevStored, calls,
                   nGetAnswer, caught, sessRaised, procVars, firstQA, lastQA, edits>>

\* lines 118-122: the question is put to the chain and the answer rendered
AskQuestion(s) ==
    /\ pc[s] = "get_answer"
    /\ \E o \in AnswerOutcomes :
         LET r == get_answer(o)
             answer == r.ret
         IN /\ display' = [display EXCEPT
                  ![s].errors = @ \cup r.messages,
                  ![s].answer = IF AnswerTruthy(answer)
                                THEN [heading |-> <<"### Answer:">>,
                                      body |-> Fill(answer.text),
                                      q |-> questionWidget[s]]
                                ELSE @]
            /\ caught' = IF o.ok THEN caught
                         ELSE [caught EXCEPT ![s] = @ \cup {[fn |-> "get_answer", e |-> o.e]}]
    /\ calls' = [calls EXCEPT ![s] = @ \cup {"get_answer"}]
    /\ nGetAnswer' = [nGetAnswer EXCEPT ![s] = @ + 1]
    /\ pc' = [pc EXCEPT ![s] = "idle"]
    /\ UNCHANGED <<openai_api_key, keyWidget, questionWidget, trigger, api_key,
                   vector_store, qa_chain, prevAnswer, prevStored, sessRaised,
                   procVars, firstQA, lastQA, edits>>

Next ==
    \E s \in Sessions :
        \/ \E k \in KeyValues : EditKey(s, k)
        \/ \E q \in Questions : EditQuestion(s, q)
        \/ Rerun(s)
        \/ VSLookup(s)
        \/ VSCompute(s)
        \/ QALookup(s)
        \/ QACompute(s)
        \/ RenderQuestion(s)
        \/ AskQuestion(s)

Spec == Init /\ [][Next]_vars

\* ------------------------------------------------- the initializers alone
\* The two memoized functions called directly, one call at a time, with any
\* key and, for the chain, with any vector store made so far.
Stores == {r.entry.value : r \in vsCache} \ {None}

DirectInitVS(k) ==
    LET ck == CacheKeyVS(k)
        fn == "initialize_vector_store"
    IN /\ IF CacheHit(vsCache, ck)
          THEN /\ returned' = IF CacheGet(vsCache, ck).value = None
                                 THEN returned
                                 ELSE returned \cup
                                      {[fn |-> fn, key |-> k,
                                        obj |-> CacheGet(vsCache, ck).value]}
               /\ UNCHANGED <<vsCache, nextId, ctorCalls, raised>>
          ELSE /\ ctorCalls[fn][k] < MaxCtorCalls
               /\ \E o \in Outcomes :
                    LET entry == initialize_vector_store(k, o, nextId)
                    IN /\ vsCache' = CacheStore(vsCache, ck, entry)
                       /\ nextId' = IF o.ok THEN nextId + 1 ELSE nextId
                       /\ ctorCalls' = [ctorCalls EXCEPT ![fn][k] = @ + 1]
                       /\ raised' = IF o.ok THEN raised
                                    ELSE raised \cup {[fn |-> fn, key |-> k]}
                       /\ returned' = IF o.ok
                                      THEN returned \cup
                                           {[fn |-> fn, key |-> k, obj |-> entry.value]}
                                      ELSE returned
       /\ UNCHANGED <<sessVars, qaCache, firstQA, lastQA, edits>>

QARecord(store, k, ret) ==
    /\ lastQA' = [called |-> TRUE, store |-> store, key |-> k, ret |-> ret]
    /\ firstQA' = IF firstQA[k].called THEN firstQA
                  ELSE [firstQA EXCEPT ![k] = [called |-> TRUE, store |-> store, ret |-> ret]]

DirectInitQA(store, k) ==
    LET ck == CacheKeyQA(store, k)
        fn == "initialize_qa_chain"
    IN /\ store \in Stores
       /\ IF CacheHit(qaCache, ck)
          THEN /\ QARecord(store, k, CacheGet(qaCache, ck).value)
               /\ UNCHANGED <<qaCache, nextId, ctorCalls, raised>>
          ELSE /\ ctorCalls[fn][k] < MaxCtorCalls
               /\ \E o \in Outcomes :
                    LET entry == initialize_qa_chain(store, k, o, nextId)
                    IN /\ qaCache' = CacheStore(qaCache, ck, entry)
                       /\ nextId' = IF o.ok THEN nextId + 1 ELSE nextId
                       /\ ctorCalls' = [ctorCalls EXCEPT ![fn][k] = @ + 1]
                       /\ raised' = IF o.ok THEN raised
                                    ELSE raised \cup {[fn |-> fn, key |-> k]}
                       /\ QARecord(store, k, entry.value)
       /\ UNCHANGED <<sessVars, vsCache, returned, edits>>

NextCalls ==
    \E k \in KeyValues :
        \/ DirectInitVS(k)
        \/ \E store \in Stores : DirectInitQA(store, k)

SpecCalls == Init /\ [][NextCalls]_vars

\* ------------------------------------------------------------------ claims
\* the latest run of session s has started (its locals are of that run)
Ran(s) == pc[s] # "rerun"
Idle(s) == pc[s] = "idle"
InitCalls == {"initialize_vector_store", "initialize_qa_chain"}
AfterStoreCalls == {"initialize_qa_chain", "get_answer"}
ErrorShown(s) == display[s].errors # {}
AnswerShown(s) == display[s].answer # NoAnswer

\* C1 as stated: a run whose key is empty or only whitespace calls neither
\* initializer and ends showing the warning.
C1_BlankKeyNoInit ==
    \A s \in Sessions :
        (Ran(s) /\ WhitespaceOnly(api_key[s])) =>
            /\ calls[s] \cap InitCalls = {}
            /\ Idle(s) => display[s].warning

\* C1 amended: a run whose key is the empty string calls neither initializer
\* and ends showing the warning (a whitespace-only key passes the gate).
C1_EmptyKeyNoInit ==
    \A s \in Sessions :
        (Ran(s) /\ api_key[s] = <<>>) =>
            /\ calls[s] = {}
            /\ Idle(s)
            /\ display[s].warning
            /\ ~display[s].question

\* C1 witness: a key edit that cleared the field has been served
C1_Witness ==
    \E s \in Sessions :
        /\ Idle(s) /\ trigger[s] = "key" /\ api_key[s] = <<>>
        /\ prevStored[s] # <<>> /\ display[s].warning

\* C2: every call of initialize_vector_store, initialize_qa_chain or
\* get_answer is made by a run whose key is not empty.
C2_NoCallWithoutKey ==
    \A s \in Sessions : calls[s] # {} => api_key[s] # <<>>

\* C2 witness: a run has gone as far as get_answer
C2_Witness ==
    \E s \in Sessions : calls[s] = InitCalls \cup {"get_answer"}

\* C3: handles returned by one initializer are the same object exactly when
\* the calls had the same key, and each was constructed for the key it was
\* returned for.
C3_MemoizedByKey ==
    \A r1 \in returned :
        /\ r1.obj # None
        /\ r1.fn = "initialize_vector_store" => r1.obj.embedding = r1.key
        /\ r1.fn = "initialize_qa_chain" => r1.obj.llm = r1.key
        /\ \A r2 \in returned :
               r1.fn = r2.fn => ((r1.key = r2.key) <=> (r1.obj.id = r2.obj.id))

\* C3 witness: two runs with one key hold the same store and chain while
\* another key has a chain of its own
C3_Witness ==
    \E s1, s2 \in Sessions :
        /\ s1 # s2 /\ api_key[s1] = api_key[s2]
        /\ vector_store[s1] # None /\ vector_store[s1] = vector_store[s2]
        /\ qa_chain[s1] # None /\ qa_chain[s1] = qa_chain[s2]
        /\ \E r \in returned : r.fn = "initialize_qa_chain" /\ r.key # api_key[s1]

\* C4: under any interleaving, each constructor is invoked at most once per
\* key, at most one handle per key is returned, and runs with the same key
\* hold the same store and the same chain.
C4_OneHandlePerKey ==
    /\ \A f \in Fns : \A k \in KeyValues :
           /\ ctorCalls[f][k] <= 1
           /\ Cardinality({r \in returned : r.fn = f /\ r.key = k}) <= 1
    /\ \A s1, s2 \in Sessions :
           (Ran(s1) /\ Ran(s2) /\ api_key[s1] = api_key[s2]) =>
               /\ (vector_store[s1] # None /\ vector_store[s2] # None)
                      => vector_store[s1] = vector_store[s2]
               /\ (qa_chain[s1] # None /\ qa_chain[s2] # None)
                      => qa_chain[s1] = qa_chain[s2]

\* C4 witness: a run that missed the cache is waiting to compute while a
\* run of another session with the same key already holds the store
C4_Witness ==
    \E s1, s2 \in Sessions :
        /\ s1 # s2 /\ pc[s1] = "vs_miss" /\ Ran(s2)
        /\ api_key[s1] = api_key[s2] /\ vector_store[s2] # None

\* C5 as stated: once the store's construction raised in a session, the
\* error shown contains the exception's text and the session never again
\* renders the question field or calls initialize_qa_chain or get_answer.
C5_NeverAgainInSession ==
    \A s \in Sessions :
        /\ \A c \in caught[s] :
               c.fn = "initialize_vector_store" =>
                   \E m \in display[s].errors : Contains(m, c.e)
        /\ sessRaised[s] # {} =>
               (~display[s].question /\ calls[s] \cap AfterStoreCalls = {})

\* C5 amended: when the store's construction raises, the error shown
\* contains the exception's text, and that run and every later run of the
\* session with the same key stops before the question field without calling
\* initialize_qa_chain or get_answer.
C5_NeverAgainWithKey ==
    \A s \in Sessions :
        /\ \A c \in caught[s] :
               c.fn = "initialize_vector_store" =>
                   \E m \in display[s].errors : Contains(m, c.e)
        /\ (Ran(s) /\ api_key[s] \in sessRaised[s]) =>
               /\ ~display[s].question
               /\ calls[s] \cap AfterStoreCalls = {}
               /\ pc[s] \in {"init_vs", "vs_miss", "idle"}

\* C5 witness: a later run with the key whose construction raised has ended
C5_Witness ==
    \E s \in Sessions :
        /\ Idle(s) /\ api_key[s] \in sessRaised[s] /\ caught[s] = {}
        /\ "initialize_vector_store" \in calls[s]

\* C6 as stated: after a run in which get_answer raised, the page shows the
\* answer it showed before the run, unchanged, and an error.
C6_PriorAnswerKept ==
    \A s \in Sessions :
        (\E c \in caught[s] : c.fn = "get_answer") =>
            (display[s].answer = prevAnswer[s] /\ ErrorShown(s))

\* C6 amended: after a run in which get_answer raised, the page shows an
\* error containing the exception's text and no answer at all (the answer
\* shown before the run is gone).
C6_NoAnswerAfterFailure ==
    \A s \in Sessions :
        \A c \in caught[s] :
            c.fn = "get_answer" =>
                /\ \E m \in display[s].errors : Contains(m, c.e)
                /\ ~AnswerShown(s)
                /\ Idle(s) \/ pc[s] = "rerun"

\* C6 witness: get_answer raised in a run that followed an answered one
C6_Witness ==
    \E s \in Sessions :
        /\ \E c \in caught[s] : c.fn = "get_answer"
        /\ prevAnswer[s] # NoAnswer /\ prevAnswer[s].q # questionWidget[s]

\* C7 as stated: after a run started by an edit of the key field the stored
\* key is the field's content.
C7_StoredIsField ==
    \A s \in Sessions :
        (Ran(s) /\ trigger[s] = "key") => openai_api_key[s] = keyWidget[s].val

\* C7 amended: after a run started by an edit of the key field the stored
\* key is the field's content when that is not empty, and is what it was
\* before the run when the field is empty.
C7_StoredIsNonEmptyField ==
    \A s \in Sessions :
        (Ran(s) /\ trigger[s] = "key") =>
            /\ keyWidget[s].val = api_key[s]
            /\ IF keyWidget[s].val # <<>>
               THEN openai_api_key[s] = keyWidget[s].val
               ELSE openai_api_key[s] = prevStored[s]

\* C7 witness: the field was cleared while a key was stored
C7_Witness ==
    \E s \in Sessions :
        /\ Ran(s) /\ trigger[s] = "key"
        /\ keyWidget[s].val = <<>> /\ openai_api_key[s] # <<>>

\* C8 as stated: the chain initialize_qa_chain returns is built over the
\* store passed in that call.
C8_ChainOverPassedStore ==
    (lastQA.called /\ lastQA.ret # None) => lastQA.ret.retriever = lastQA.store.id

\* C8 amended: the orchestrator is memoized by the key alone: a call returns
\* what the first call with that key returned, a chain built over the store
\* of that first call, whatever store is passed now.
C8_ChainOfFirstCall ==
    lastQA.called =>
        /\ firstQA[lastQA.key].called
        /\ lastQA.ret = firstQA[lastQA.key].ret
        /\ lastQA.ret # None =>
               lastQA.ret.retriever = firstQA[lastQA.key].store.id

\* C8 witness: a call with a seen key and another store has returned a chain
C8_Witness ==
    /\ lastQA.called /\ lastQA.ret # None
    /\ firstQA[lastQA.key].store # lastQA.store

\* In the application (Spec) the store passed for a key is always the one
\* memoized for that key, so there every chain a run holds is built over the
\* store the run passed.
AppChainOverPassedStore ==
    \A s \in Sessions :
        qa_chain[s] # None => qa_chain[s].retriever = vector_store[s].id

\* C9: once a constructor has raised for a key it is never invoked for that
\* key again, the cache holds None for the key, and every run with that key
\* gets None from the initializer and stops before the question field.
C9_FailureIsCached ==
    \A r \in raised :
        /\ ctorCalls[r.fn][r.key] = 1
        /\ r.fn = "initialize_vector_store" =>
               /\ CacheHit(vsCache, r.key) /\ CacheGet(vsCache, r.key).value = None
               /\ \A s \in Sessions :
                      (api_key[s] = r.key /\ pc[s] \notin {"rerun", "init_vs", "vs_miss"}) =>
                          /\ vector_store[s] = None /\ Idle(s)
                          /\ ~display[s].question
                          /\ calls[s] = {"initialize_vector_store"}
        /\ r.fn = "initialize_qa_chain" =>
               /\ CacheHit(qaCache, r.key) /\ CacheGet(qaCache, r.key).value = None
               /\ \A s \in Sessions :
                      (api_key[s] = r.key
                         /\ pc[s] \notin {"rerun", "init_vs", "vs_miss", "init_qa", "qa_miss"}) =>
                          /\ qa_chain[s] = None /\ Idle(s)
                          /\ ~display[s].question
                          /\ "get_answer" \notin calls[s]

\* C9 witness: a run got the cached None from initialize_qa_chain
C9_Witness ==
    \E s \in Sessions :
        /\ Idle(s) /\ caught[s] = {}
        /\ "initialize_qa_chain" \in calls[s]
        /\ [fn |-> "initialize_qa_chain", key |-> api_key[s]] \in raised

\* C10: a run with a key, both handles and a question calls get_answer once
\* and ends showing either the answer or an error, never neither.
C10_AnswerOrError ==
    \A s \in Sessions :
        (Idle(s) /\ api_key[s] # <<>> /\ vector_store[s] # None
           /\ qa_chain[s] # None /\ questionWidget[s] # <<>>) =>
            /\ nGetAnswer[s] = 1
            /\ AnswerShown(s) # ErrorShown(s)

====
